---- MODULE Spec2Model ----
(***************************************************************************)
(* Parameter sweep of test_iops.py (run_parameter_test) over the fio       *)
(* adapter of script.py (run_fio_test).                                    *)
(*                                                                         *)
(* Python values are tagged records so that values of different Python     *)
(* types can be told apart: None, numbers, strings, dicts and lists.       *)
(* The timestamp column of a row is wall-clock time and is left out.       *)
(***************************************************************************)
EXTENDS Integers, Sequences, FiniteSets, TLC

VARIABLES
    test_params,        \* argument of run_parameter_test
    file,               \* lines of result_file
    pc,                 \* position in run_parameter_test
    all_combinations,   \* list(itertools.product(...))
    total_tests,        \* product of the five list lengths
    test_count,         \* enumerate(all_combinations, 1) index of the current test
    results,            \* first component of run_fio_test's return value
    iops,               \* get_iops_from_results(results)
    best_iops,
    best_params,
    fault,              \* the operation that raised an exception, or "none"
    returned,           \* value returned to the caller, once pc = "done"
    log                 \* steps completed so far in this sweep, in order

vars == <<test_params, file, pc, all_combinations, total_tests, test_count,
          results, iops, best_iops, best_params, fault, returned, log>>

\* Largest total_tests of the sweeps explored.
MaxTests == 5

----------------------------------------------------------------------------
(* Python values *)

None == [t |-> "null"]
Num(n) == [t |-> "num", v |-> n]
Str == [t |-> "str"]                        \* some non-empty string
Dict(f) == [t |-> "obj", f |-> f]
List(s) == [t |-> "arr", a |-> s]
EmptyDict == Dict([k \in {} |-> None])
Raised == [t |-> "raise"]                   \* the evaluation raised an exception

\* Python truth value of v ("if not v" is ~Truthy(v)).
Truthy(v) ==
    CASE v.t = "null" -> FALSE
      [] v.t = "num"  -> v.v # 0
      [] v.t = "str"  -> TRUE
      [] v.t = "obj"  -> DOMAIN v.f # {}
      [] v.t = "arr"  -> Len(v.a) # 0

\* d.get(k, default); only a dict has the method.
Get(d, k, default) ==
    IF d.t # "obj" THEN Raised
    ELSE IF k \in DOMAIN d.f THEN d.f[k] ELSE default

\* a + b as Python evaluates it on these values.
Add(a, b) ==
    CASE a.t = "num" /\ b.t = "num" -> Num(a.v + b.v)
      [] a.t = "str" /\ b.t = "str" -> Str
      [] a.t = "arr" /\ b.t = "arr" -> List(a.a \o b.a)
      [] OTHER -> Raised

\* jobs[0]: the first element of a list; a dict has no key 0, a number has
\* no items, and the one-character string it gives for a string has no .get.
First(jobs) ==
    IF jobs.t = "arr" THEN jobs.a[1] ELSE Raised

get_iops_from_results(res) ==
    IF ~Truthy(res) THEN Num(0)
    ELSE LET jobs == Get(res, "jobs", List(<<>>)) IN
      IF jobs = Raised THEN Raised
      ELSE IF ~Truthy(jobs) THEN Num(0)
      ELSE LET job == First(jobs) IN
        IF job = Raised THEN Raised
        ELSE LET rd == Get(job, "read", EmptyDict)
                 wr == Get(job, "write", EmptyDict) IN
          IF rd = Raised THEN Raised
          ELSE LET read_iops == Get(rd, "iops", Num(0)) IN
            IF read_iops = Raised \/ wr = Raised THEN Raised
            ELSE LET write_iops == Get(wr, "iops", Num(0)) IN
              IF write_iops = Raised THEN Raised
              ELSE Add(read_iops, write_iops)

----------------------------------------------------------------------------
(* The adapter: script.py run_fio_test *)

\* What the environment does to one fio invocation.
FioExitNonZero  == [kind |-> "exit_nonzero"]   \* fio exits with a non-zero status
FioToolMissing  == [kind |-> "tool_missing"]   \* no fio executable: FileNotFoundError
FioUnreadable   == [kind |-> "unreadable"]     \* output file absent or not JSON
FioOk(doc)      == [kind |-> "ok", doc |-> doc]

\* results of run_fio_test(...), or Raised when the exception is not the one
\* the except clause names (subprocess.CalledProcessError).
run_fio_test(env) ==
    CASE env.kind = "exit_nonzero" -> None
      [] env.kind = "tool_missing" -> Raised
      [] env.kind = "unreadable"   -> Raised
      [] env.kind = "ok"           -> env.doc

----------------------------------------------------------------------------
(* itertools.product *)

\* Extend with the loops exchanged: [x + [y] for y in pool for x in result]
Extend_PoolSlowest(result, pool) ==
    [k \in 1..(Len(result) * Len(pool)) |->
        Append(result[((k - 1) % Len(result)) + 1],
               pool[((k - 1) \div Len(result)) + 1])]

\* [x + [y] for x in result for y in pool]
Extend(result, pool) ==
    [k \in 1..(Len(result) * Len(pool)) |->
        Append(result[((k - 1) \div Len(pool)) + 1],
               pool[((k - 1) % Len(pool)) + 1])]

RECURSIVE product(_)
product(pools) ==
    IF Len(pools) = 0 THEN << <<>> >>
    ELSE Extend(product(SubSeq(pools, 1, Len(pools) - 1)), pools[Len(pools)])

----------------------------------------------------------------------------
(* Inputs *)

AllRw == <<"randread", "randwrite", "read", "write", "randrw">>
RwLists == {SubSeq(AllRw, 1, n) : n \in 0..Len(AllRw)}
BsLists == {<<>>, <<"4k">>, <<"4k", "8k">>}
DepthLists == {<<>>, <<32>>, <<0, 32>>}
JobLists == {<<>>, <<4>>, <<4, -1>>}
EngineLists == {<<>>, <<"libaio">>, <<"libaio", "io_uring">>}

Keys == {"rw", "bs", "iodepth", "numjobs", "ioengine"}

\* A test_params dict that has all five keys.
FullParams ==
    {[rw |-> r, bs |-> b, iodepth |-> d, numjobs |-> j, ioengine |-> e] :
        r \in RwLists, b \in BsLists, d \in DepthLists, j \in JobLists,
        e \in EngineLists}

\* test_params.get(k, default)
ParamGet(p, k, default) == IF k \in DOMAIN p THEN p[k] ELSE default

Lens(p) ==
    Len(ParamGet(p, "rw", <<"randread">>)) * Len(ParamGet(p, "bs", <<"4k">>))
      * Len(ParamGet(p, "iodepth", <<32>>)) * Len(ParamGet(p, "numjobs", <<4>>))
      * Len(ParamGet(p, "ioengine", <<"libaio">>))

\* The dicts explored: every full dict of at most MaxTests tests, and the
\* empty dict, for which every key takes its default.
ParamChoices ==
    {p \in FullParams : Lens(p) <= MaxTests} \cup {[k \in {} |-> <<>>]}

\* Documents fio leaves for a run of the sweep.
ReadDoc(v) == Dict([jobs |-> List(<<Dict([read |-> Dict([iops |-> v])])>>)])
SweepDocs ==
    {EmptyDict,
     ReadDoc(Num(100)), ReadDoc(Num(200)), ReadDoc(Num(450)), ReadDoc(Num(-50)),
     Dict([jobs |-> List(<<Dict([read |-> None])>>)]),
     Dict([jobs |-> List(<<Dict([read |-> Dict([iops |-> Str]),
                                 write |-> Dict([iops |-> Str])])>>)])}
SweepEnvs == {FioExitNonZero, FioToolMissing, FioUnreadable}
                \cup {FioOk(d) : d \in SweepDocs}

----------------------------------------------------------------------------
(* The result file *)

Header == [kind |-> "header"]
Row(c, m) ==
    [kind |-> "row", rw |-> c[1], bs |-> c[2], iodepth |-> c[3],
     numjobs |-> c[4], ioengine |-> c[5], iops |-> m]
\* A file left by an earlier sweep.
StaleFile == <<Header, Row(<<"read", "4k", 32, 4, "sync">>, Num(7))>>

NoParams == [k \in {} |-> None]             \* the dict {}
Params(c, m) ==
    [rw |-> c[1], bs |-> c[2], iodepth |-> c[3], numjobs |-> c[4],
     ioengine |-> c[5], iops |-> m]

----------------------------------------------------------------------------
(* run_parameter_test *)

Init ==
    /\ test_params \in ParamChoices
    /\ file \in {<<>>, StaleFile}
    /\ pc = "open"
    /\ all_combinations = <<>>
    /\ total_tests = 0
    /\ test_count = 0
    /\ results = None
    /\ iops = Num(0)
    /\ best_iops = 0
    /\ best_params = NoParams
    /\ fault = "none"
    /\ returned = NoParams
    /\ log = <<>>

Abort(why) ==
    /\ pc' = "aborted"
    /\ fault' = why

\* open(result_file, 'w') and writeheader(); an OSError leaves the function.
OpenStore ==
    /\ pc = "open"
    /\ \/ /\ file' = <<Header>>
          /\ pc' = "enumerate"
          /\ UNCHANGED fault
       \/ /\ Abort("store")
          /\ UNCHANGED file
    /\ UNCHANGED <<test_params, all_combinations, total_tests, test_count,
                   results, iops, best_iops, best_params, returned, log>>

\* The five test_params.get calls, total_tests, the initial best and the product.
Enumerate ==
    /\ pc = "enumerate"
    /\ LET rw_modes == ParamGet(test_params, "rw", <<"randread">>)
           block_sizes == ParamGet(test_params, "bs", <<"4k">>)
           io_depths == ParamGet(test_params, "iodepth", <<32>>)
           num_jobs == ParamGet(test_params, "numjobs", <<4>>)
           io_engines == ParamGet(test_params, "ioengine", <<"libaio">>)
       IN /\ total_tests' = Len(rw_modes) * Len(block_sizes) * Len(io_depths)
                              * Len(num_jobs) * Len(io_engines)
          /\ all_combinations' =
               product(<<rw_modes, block_sizes, io_depths, num_jobs, io_engines>>)
    /\ best_iops' = 0
    /\ best_params' = NoParams
    /\ pc' = "loop"
    /\ UNCHANGED <<test_params, file, test_count, results, iops, fault,
                   returned, log>>

\* The next iteration of the for loop: run_fio_test for the next combination.
RunTest ==
    /\ pc = "loop"
    /\ test_count < Len(all_combinations)
    /\ test_count' = test_count + 1
    /\ \E env \in SweepEnvs :
         LET r == run_fio_test(env) IN
           IF r = Raised
           THEN /\ Abort("adapter")
                /\ UNCHANGED <<results, log>>
           ELSE /\ results' = r
                /\ pc' = "extract"
                /\ log' = Append(log, "call")
                /\ UNCHANGED fault
    /\ UNCHANGED <<test_params, file, all_combinations, total_tests, iops,
                   best_iops, best_params, returned>>

\* iops = get_iops_from_results(results)
Extract ==
    /\ pc = "extract"
    /\ LET m == get_iops_from_results(results) IN
         IF m = Raised
         THEN /\ Abort("extract")
              /\ UNCHANGED <<iops, log>>
         ELSE /\ iops' = m
              /\ pc' = "append"
              /\ log' = Append(log, "extract")
              /\ UNCHANGED fault
    /\ UNCHANGED <<test_params, file, all_combinations, total_tests, test_count,
                   results, best_iops, best_params, returned>>

\* AppendRow with the OSError swallowed: the loop goes on without the row.
AppendRow_IgnoreError ==
    /\ pc = "append"
    /\ \/ /\ file' = Append(file, Row(all_combinations[test_count], iops))
          /\ UNCHANGED fault
       \/ /\ fault' = "store"
          /\ UNCHANGED file
    /\ pc' = "update"
    /\ log' = Append(log, "append")
    /\ UNCHANGED <<test_params, all_combinations, total_tests, test_count,
                   results, iops, best_iops, best_params, returned>>

\* AppendRow with the file opened in mode 'w' instead of 'a'.
AppendRow_Truncate ==
    /\ pc = "append"
    /\ \/ /\ file' = <<Row(all_combinations[test_count], iops)>>
          /\ pc' = "update"
          /\ log' = Append(log, "append")
          /\ UNCHANGED fault
       \/ /\ Abort("store")
          /\ UNCHANGED <<file, log>>
    /\ UNCHANGED <<test_params, all_combinations, total_tests, test_count,
                   results, iops, best_iops, best_params, returned>>

\* open(result_file, 'a') and writerow(...); an OSError leaves the function.
AppendRow ==
    /\ pc = "append"
    /\ \/ /\ file' = Append(file, Row(all_combinations[test_count], iops))
          /\ pc' = "update"
          /\ log' = Append(log, "append")
          /\ UNCHANGED fault
       \/ /\ Abort("store")
          /\ UNCHANGED <<file, log>>
    /\ UNCHANGED <<test_params, all_combinations, total_tests, test_count,
                   results, iops, best_iops, best_params, returned>>

\* UpdateBest with "iops >= best_iops" as the test.
UpdateBest_NonStrict ==
    /\ pc = "update"
    /\ IF iops.t # "num"
       THEN /\ Abort("compare")
            /\ UNCHANGED <<best_iops, best_params, log>>
       ELSE /\ IF iops.v >= best_iops
               THEN /\ best_iops' = iops.v
                    /\ best_params' = Params(all_combinations[test_count], iops)
               ELSE UNCHANGED <<best_iops, best_params>>
            /\ pc' = "report"
            /\ log' = Append(log, "update")
            /\ UNCHANGED fault
    /\ UNCHANGED <<test_params, file, all_combinations, total_tests, test_count,
                   results, iops, returned>>

\* if iops > best_iops: ...; the comparison of a non-number with the int
\* best_iops raises TypeError.
UpdateBest ==
    /\ pc = "update"
    /\ IF iops.t # "num"
       THEN /\ Abort("compare")
            /\ UNCHANGED <<best_iops, best_params, log>>
       ELSE /\ IF iops.v > best_iops
               THEN /\ best_iops' = iops.v
                    /\ best_params' = Params(all_combinations[test_count], iops)
               ELSE UNCHANGED <<best_iops, best_params>>
            /\ pc' = "report"
            /\ log' = Append(log, "update")
            /\ UNCHANGED fault
    /\ UNCHANGED <<test_params, file, all_combinations, total_tests, test_count,
                   results, iops, returned>>

\* Report with the time.sleep(5) that follows it left out.
Report_NoCoolDown ==
    /\ pc = "report"
    /\ pc' = "loop"
    /\ log' = Append(log, "report")
    /\ UNCHANGED <<test_params, file, all_combinations, total_tests, test_count,
                   results, iops, best_iops, best_params, fault, returned>>

\* The two logger.info lines with the current best, and pbar.update(1).
Report ==
    /\ pc = "report"
    /\ pc' = "sleep"
    /\ log' = Append(log, "report")
    /\ UNCHANGED <<test_params, file, all_combinations, total_tests, test_count,
                   results, iops, best_iops, best_params, fault, returned>>

\* time.sleep(5)
CoolDown ==
    /\ pc = "sleep"
    /\ pc' = "loop"
    /\ log' = Append(log, "sleep")
    /\ UNCHANGED <<test_params, file, all_combinations, total_tests, test_count,
                   results, iops, best_iops, best_params, fault, returned>>

\* return best_params, once the loop has run out of combinations.
Return ==
    /\ pc = "loop"
    /\ test_count = Len(all_combinations)
    /\ pc' = "done"
    /\ returned' = best_params
    /\ UNCHANGED <<test_params, file, all_combinations, total_tests, test_count,
                   results, iops, best_iops, best_params, fault, log>>

\* The keys main reads from the returned dict: best_params['iops'] for the
\* log line, then rw, bs, iodepth, numjobs, ioengine for the command example.
ReportKeys == <<"iops", "rw", "bs", "iodepth", "numjobs", "ioengine">>

\* d[k] raises KeyError when the dict has no key k.
HasKey(d, k) == k \in DOMAIN d

\* main after run_parameter_test has returned: the final report. The call of
\* visualize_results between the reads changes none of these variables.
MainReport ==
    /\ pc = "done"
    /\ IF \A i \in 1..Len(ReportKeys) : HasKey(returned, ReportKeys[i])
       THEN /\ pc' = "reported"
            /\ UNCHANGED fault
       ELSE Abort("report")
    /\ UNCHANGED <<test_params, file, all_combinations, total_tests, test_count,
                   results, iops, best_iops, best_params, returned, log>>

Next ==
    \/ OpenStore
    \/ Enumerate
    \/ RunTest
    \/ Extract
    \/ AppendRow
    \/ UpdateBest
    \/ Report
    \/ CoolDown
    \/ Return
    \/ MainReport

Spec == Init /\ [][Next]_vars

----------------------------------------------------------------------------
(* get_iops_from_results on its own, over every shape of adapter result *)

IopsVals == {None, Str, Num(-50), Num(0), Num(100)}
\* What a job holds under "read" or "write", when the key is there.
EntryVals == {None, Num(7), EmptyDict} \cup {Dict([iops |-> v]) : v \in IopsVals}
            \cup {Dict([bw |-> Num(3)])}
JobDicts ==
    {Dict(f) : f \in UNION {[S -> EntryVals] : S \in SUBSET {"read", "write"}}}
AllResults ==
    {None, EmptyDict, Dict([version |-> Str]), List(<<Num(1)>>),
     Dict([jobs |-> None]), Dict([jobs |-> List(<<>>)]),
     Dict([jobs |-> Dict([a |-> Num(1)])]), Dict([jobs |-> List(<<Num(1)>>)]),
     Dict([jobs |-> List(<<Dict([read |-> Dict([iops |-> Num(100)])]),
                           Dict([read |-> Dict([iops |-> Num(450)])])>>)])}
      \cup {Dict([jobs |-> List(<<j>>)]) : j \in JobDicts}

InitExtract ==
    /\ results \in AllResults
    /\ pc = "extract"
    /\ test_params = [k \in {} |-> <<>>]
    /\ file = <<Header>>
    /\ all_combinations = product(<<<<"randread">>, <<"4k">>, <<32>>, <<4>>,
                                    <<"libaio">>>>)
    /\ total_tests = 1
    /\ test_count = 1
    /\ iops = Num(0)
    /\ best_iops = 0
    /\ best_params = NoParams
    /\ fault = "none"
    /\ returned = NoParams
    /\ log = <<"call">>

NextExtract == Extract

SpecExtract == InitExtract /\ [][NextExtract]_vars

----------------------------------------------------------------------------
(* Properties *)

DataRows == SubSeq(file, 2, Len(file))
RowConfig(r) == <<r.rw, r.bs, r.iodepth, r.numjobs, r.ioengine>>

\* C1: at every iteration boundary, at the end of a completed sweep and after
\* a sweep that ended without a store failure, the file holds the header and
\* exactly one row per configuration processed so far, in enumeration order;
\* the row of a failed run has metric 0; a completed sweep leaves
\* total_tests + 1 lines.
C1_OneRowPerConfig ==
    /\ (pc \in {"loop", "done"} \/ (pc = "aborted" /\ fault # "store")) =>
         /\ Len(file) = test_count + 1
         /\ file[1] = Header
         /\ \A k \in 1..test_count : RowConfig(file[k + 1]) = all_combinations[k]
    /\ (pc = "update" /\ results = None) => file[Len(file)].iops = Num(0)
    /\ pc = "done" => Len(file) = total_tests + 1

\* C3: no adapter failure (abnormal exit, missing tool or device, unreadable
\* result document) ever leaves run_fio_test as an exception that ends the sweep.
C3_AdapterFailureNeverAborts == ~(pc = "aborted" /\ fault = "adapter")

\* C4: for every adapter result, get_iops_from_results returns a number that
\* is not negative and does not raise.
C4_ExtractTotal ==
    pc # "extract" => /\ fault = "none"
                      /\ iops.t = "num"
                      /\ iops.v >= 0

\* A list of the sweep configuration is empty, or a queue depth or job count
\* is not positive.
InvalidConfig(p) ==
    \/ \E k \in Keys : Len(ParamGet(p, k, <<"default">>)) = 0
    \/ \E i \in 1..Len(ParamGet(p, "iodepth", <<32>>)) :
           ParamGet(p, "iodepth", <<32>>)[i] <= 0
    \/ \E i \in 1..Len(ParamGet(p, "numjobs", <<4>>)) :
           ParamGet(p, "numjobs", <<4>>)[i] <= 0

\* C5: with an invalid sweep configuration no benchmark run executes and
\* run_parameter_test does not return a selection.
C5_InvalidConfigIsFatal ==
    InvalidConfig(test_params) => (test_count = 0 /\ pc # "done")

\* The tracker has seen every row of the file, and there is at least one.
AtBoundary == pc \in {"report", "sleep", "loop", "done"} /\ Len(file) > 1
MaxMetric ==
    CHOOSE m \in {DataRows[k].iops.v : k \in 1..Len(DataRows)} :
        \A k \in 1..Len(DataRows) : DataRows[k].iops.v <= m
\* The first row whose metric is m.
Earliest(m) ==
    CHOOSE k \in 1..Len(DataRows) :
        /\ DataRows[k].iops.v = m
        /\ \A j \in 1..(k - 1) : DataRows[j].iops.v # m
ParamsOfRow(r) == Params(RowConfig(r), r.iops)

\* C2 as stated: once the tracker has processed the N rows written, best_iops
\* is the maximum metric among them and best_params is the configuration of
\* the earliest row reaching that maximum.
C2_BestIsMaxOfRows ==
    AtBoundary =>
        /\ best_iops = MaxMetric
        /\ best_params = ParamsOfRow(DataRows[Earliest(MaxMetric)])

\* C2 amended: once the tracker has processed the N rows written, best_iops
\* is the larger of 0 and the maximum metric among them; when it is above 0
\* best_params is the configuration of the earliest row reaching it, and
\* when no row's metric is above 0 best_params is still the empty dict.
C2_BestIsMaxAboveZero ==
    AtBoundary =>
        LET m == IF MaxMetric > 0 THEN MaxMetric ELSE 0 IN
          /\ best_iops = m
          /\ IF m > 0
             THEN best_params = ParamsOfRow(DataRows[Earliest(m)])
             ELSE best_params = NoParams

C2_Witness ==
    /\ pc = "loop"
    /\ Len(DataRows) = 3
    /\ DataRows[1].iops = Num(100)
    /\ DataRows[2].iops = Num(450)
    /\ DataRows[3].iops = Num(450)
    /\ best_params = ParamsOfRow(DataRows[2])

\* The sweep of four runs with metrics 100, 450, 450, 200 has returned.
FourRuns ==
    /\ pc = "done"
    /\ Len(DataRows) = 4
    /\ [k \in 1..4 |-> DataRows[k].iops] = <<Num(100), Num(450), Num(450), Num(200)>>

\* C6 as stated: after runs with metrics 100, 450, 450, 200 the selection has
\* metric 450 and is the third processed configuration.
C6_ThirdConfigWins ==
    FourRuns => /\ best_iops = 450
                /\ returned = Params(all_combinations[3], Num(450))

\* C6 amended: after runs with metrics 100, 450, 450, 200 the selection has
\* metric 450 and is the second processed configuration, the first to reach 450.
C6_SecondConfigWins ==
    FourRuns => /\ best_iops = 450
                /\ returned = Params(all_combinations[2], Num(450))

C6_Witness == FourRuns /\ total_tests = 4 /\ returned.iops = Num(450)

Cycle == <<"call", "extract", "append", "update", "report", "sleep">>

\* C7: the completed steps of a sweep repeat the order adapter call, metric
\* extraction, row append, best update, progress report, cool-down; and an
\* adapter call starts only when every earlier configuration has its row in
\* the file and its cool-down behind it.
C7_SequentialAndPaced ==
    /\ [](\A i \in 1..Len(log) : log[i] = Cycle[((i - 1) % Len(Cycle)) + 1])
    /\ [][test_count' # test_count =>
            /\ Len(log) = Len(Cycle) * test_count
            /\ Len(file) = test_count + 1]_vars

C7_Witness == pc = "extract" /\ test_count = 3 /\ Len(log) = 2 * Len(Cycle) + 1

\* C8: once a write to the result file has failed, run_parameter_test has
\* ended with the exception, it starts no further run and never returns a
\* selection.
C8_StoreFailureIsFatal ==
    /\ [](fault = "store" => pc = "aborted")
    /\ [][fault = "store" => (test_count' = test_count /\ pc' # "done")]_vars

C8_Witness ==
    pc = "aborted" /\ fault = "store" /\ test_count = 3 /\ Len(file) = 3

\* C9: once the sweep has opened the result file, every step leaves the lines
\* already in the file in place and unchanged; a step only adds lines.
C9_AppendOnly ==
    [][pc # "open" =>
         /\ Len(file') >= Len(file)
         /\ SubSeq(file', 1, Len(file)) = file]_vars

C9_Witness ==
    pc = "aborted" /\ fault \in {"adapter", "extract"} /\ Len(file) = 4

\* The sweep has enumerated its combinations.
Enumerated ==
    pc \notin {"open", "enumerate"} /\ ~(pc = "aborted" /\ test_count = 0)

\* C10: for non-empty lists, all_combinations has total_tests elements, the
\* product of the five lengths, and its k-th element is the k-th tuple of the
\* nested loops over rw, bs, iodepth, numjobs, ioengine (rw outermost), which
\* fixes the sequence as a function of the inputs.
C10_NestedLoopOrder ==
    LET rw == ParamGet(test_params, "rw", <<"randread">>)
        bs == ParamGet(test_params, "bs", <<"4k">>)
        dp == ParamGet(test_params, "iodepth", <<32>>)
        nj == ParamGet(test_params, "numjobs", <<4>>)
        en == ParamGet(test_params, "ioengine", <<"libaio">>)
    IN (Enumerated /\ Len(rw) > 0 /\ Len(bs) > 0 /\ Len(dp) > 0 /\ Len(nj) > 0
          /\ Len(en) > 0) =>
         /\ total_tests = Len(rw) * Len(bs) * Len(dp) * Len(nj) * Len(en)
         /\ Len(all_combinations) = total_tests
         /\ \A k \in 1..total_tests :
              all_combinations[k] =
                << rw[((k - 1) \div (Len(bs) * Len(dp) * Len(nj) * Len(en))) + 1],
                   bs[(((k - 1) \div (Len(dp) * Len(nj) * Len(en))) % Len(bs)) + 1],
                   dp[(((k - 1) \div (Len(nj) * Len(en))) % Len(dp)) + 1],
                   nj[(((k - 1) \div Len(en)) % Len(nj)) + 1],
                   en[((k - 1) % Len(en)) + 1] >>

C10_Witness ==
    /\ pc = "loop"
    /\ total_tests = 4
    /\ Len(all_combinations) = 4
    /\ all_combinations[2] = <<"randread", "4k", 32, 4, "io_uring">>
    /\ all_combinations[3] = <<"randwrite", "4k", 32, 4, "libaio">>

\* C11: after a sweep of a valid configuration that ran every one of its
\* tests to completion, also one whose best selection is still the initial
\* empty one, main's final report reads the fields of the returned selection
\* without raising.
C11_FinalReportCompletes ==
    (~InvalidConfig(test_params) /\ test_count >= 1 /\ Len(file) = total_tests + 1)
        => ~(pc = "aborted" /\ fault = "report")

====
